---- MODULE Spec2Model ----
(***************************************************************************)
(* Event ingestion and alerting system.                                    *)
(*                                                                         *)
(* Ingestion service: sensor registry (create / update / delete), sensor   *)
(* cache, create_event (lookup, device/event-type check, insert, publish). *)
(* Alerting service: RabbitMQ consumer (process_message), alert decision   *)
(* engine (process_event), authorized-user directory and its cache.        *)
(*                                                                         *)
(* Every await of a handler is a step of its own, so that concurrent       *)
(* requests interleave where the event loop lets them.                     *)
(*                                                                         *)
(* A schema object carries the fields its class declares: a keyword the     *)
(* class does not declare is dropped at construction (EventCreateInternal  *)
(* has no device_id, AlertCreate has no photo_base64).  Where crud/event.py *)
(* and crud/alert.py read such a field from the object, the row gets no    *)
(* value for it; the AttributeError of that read is not represented.       *)
(***************************************************************************)
EXTENDS Integers, Sequences, FiniteSets, TLC

\* ------------------------------------------------------------------ bounds
MaxSensorId == 2
MaxEvents == 2
MaxMessages == 2
MaxQueue == 1
MaxRuns == 2

\* --------------------------------------------------------- input vocabularies
\* device identifiers as clients send them (lower case is accepted by the
\* MAC pattern and normalised by the schema)
RawDeviceIds == {"AA:01", "aa:01"}

DeviceTypes == {"access_controller", "radar", "security_camera"}

EventTypes == {"access_attempt", "speed_violation", "motion_detected"}

\* str.upper() on the device identifiers of the model
Upper(d) ==
    CASE d = "aa:01" -> "AA:01"
      [] d = "bb:02" -> "BB:02"
      [] OTHER -> d

DeviceIds == {Upper(d) : d \in RawDeviceIds}

\* JSON values of a payload field, tagged with their Python type
JsonNumber(n) == [type |-> "number", value |-> n]
JsonString == [type |-> "string", value |-> 0]
JsonNull == [type |-> "null", value |-> 0]
\* a JSON number with a fraction or exponent (Python float; value stands for
\* value.0), a JSON boolean, and a string of digits
JsonFloat(n) == [type |-> "float", value |-> n]
JsonBool(b) == [type |-> "boolean", value |-> IF b THEN 1 ELSE 0]
JsonNumericString(n) == [type |-> "string", value |-> n]

\* zone names are sequences of characters
RestrictedArea == <<"R", "e", "s", "t", "r", "i", "c", "t", "e", "d", " ", "A", "r", "e", "a">>
SecureZone == <<"S", "e", "c", "u", "r", "e", " ", "Z", "o", "n", "e">>
PrivateArea == <<"P", "r", "i", "v", "a", "t", "e", " ", "A", "r", "e", "a">>
ClassifiedZone == <<"C", "l", "a", "s", "s", "i", "f", "i", "e", "d", " ", "Z", "o", "n", "e">>

\* the record with the fields of f and, besides them, those of g
Merged(f, g) ==
    [k \in DOMAIN f \cup DOMAIN g |-> IF k \in DOMAIN f THEN f[k] ELSE g[k]]

\* timestamps are represented by their hour of day (22: after hours)
\* the variant-specific payload of a well-formed request of each event type
PayloadOf(et) ==
    CASE et = "access_attempt" -> [user_id |-> "ghost"]
      [] et = "speed_violation" -> [speed_kmh |-> JsonNumber(120), location |-> "Zone A"]
      [] OTHER -> [zone |-> RestrictedArea, confidence |-> 1, photo_base64 |-> "img"]

\* -------------------------------------------------------------------- state
VARIABLES
    sensors,        \* Sensor rows: set of [id, device_id, device_type]
    nextSensorId,   \* the sensors.id sequence
    sensorCache,    \* redis "sensor:<device_id>" entries
    events,         \* Event rows, in insertion order
    nextEventId,    \* the events.id sequence
    ereq,           \* create_event requests in flight
    sreq,           \* sensor registry requests in flight
    brokerUp,       \* RabbitMQ reachable
    mqReady,        \* MessageQueueService.channel and .exchange are set
    queue,          \* messages in the durable queue, oldest first
    authUsers,      \* AuthorizedUser rows: the set of user_id
    authCache,      \* members of the redis set "authorized_users"
    authCacheTtl,   \* the key "authorized_users" carries an expiry
    alerts,         \* Alert rows, in insertion order
    cons,           \* the delivery the consumer is processing
    settled,        \* how the last finished delivery was settled
    injected,       \* number of messages other publishers have sent
    areq,           \* authorized-user requests in flight
    svc             \* the alerting process: lifespan, consumer task, channel

registryVars == <<sensors, nextSensorId>>
storeVars == <<events, nextEventId>>
brokerVars == <<brokerUp, mqReady>>
directoryVars == <<authUsers, authCache, authCacheTtl, areq>>
consumerVars == <<alerts, cons, settled>>
alertingVars == <<authUsers, authCache, authCacheTtl, areq, alerts, cons, settled,
                  injected>>

vars == <<sensors, nextSensorId, sensorCache, events, nextEventId, ereq, sreq,
          brokerUp, mqReady, queue, authUsers, authCache, authCacheTtl,
          alerts, cons, settled, injected, areq, svc>>

NoSensor == [id |-> 0, device_id |-> "", device_type |-> ""]

\* no validation error
NoError == [type |-> "", extra_fields |-> {}]

IdleEventReq ==
    [pc |-> "idle", device_id |-> "", event_type |-> "", sensor |-> NoSensor,
     resolved |-> "", regAtLookup |-> FALSE, typeAtCheck |-> "", status |-> 0,
     event_id |-> 0, connects |-> 0, publishes |-> 0,
     transportFailed |-> FALSE, delivered |-> FALSE, publishResult |-> "",
     data |-> << >>, provided |-> {}, error |-> NoError]

IdleSensorReq ==
    [op |-> "", pc |-> "idle", device_id |-> "", device_type |-> "",
     sensor |-> NoSensor, status |-> 0]

\* request slots: one create_event and one registry request are in flight at a time
EventReqs == {1}
SensorReqs == {1}

\* the slots of registry requests; the second one is used where create_sensor
\* requests run concurrently
SensorSlots == {1, 2}

\* ------------------------------------------------------------ sensor registry
\* CRUDSensor.get_by_device_id: the row or NoSensor
GetByDeviceId(d) ==
    IF \E s \in sensors : s.device_id = d
    THEN CHOOSE s \in sensors : s.device_id = d
    ELSE NoSensor

Registered(d) == \E s \in sensors : s.device_id = d

\* events.sensor_id is a foreign key to sensors.id
EventsReference(sid) == \E i \in 1..Len(events) : events[i].sensor_id = sid

\* SensorDomain.SENSOR_RULES: the one event type a device type may send
GetAllowedEventType(dt) ==
    CASE dt = "access_controller" -> "access_attempt"
      [] dt = "radar" -> "speed_violation"
      [] dt = "security_camera" -> "motion_detected"
      [] OTHER -> "none"

IsValidDeviceEventCombination(dt, et) == GetAllowedEventType(dt) = et

\* ValidationService.get_validation_error_message: the parts the message names
GetValidationErrorMessage(dt, et) ==
    IF GetAllowedEventType(dt) = "none"
    THEN [device_type |-> dt, event_type |-> "", expected |-> ""]
    ELSE [device_type |-> dt, event_type |-> et, expected |-> GetAllowedEventType(dt)]

\* the store refuses an events row whose sensor_id names no sensors row
ForeignKeyHolds(sid) == \E s \in sensors : s.id = sid

\* --------------------------------------------------- sensor registry requests
ActiveCreates == Cardinality({a \in SensorSlots : sreq[a].op = "create" /\ sreq[a].pc # "done"})

SR_Begin(a, op, d, t) ==
    /\ sreq[a].pc = "idle"
    /\ op = "create" => nextSensorId + ActiveCreates <= MaxSensorId
    /\ sreq' = [sreq EXCEPT ![a] = [op |-> op, pc |-> "run", device_id |-> d,
                                    device_type |-> IF op = "delete" THEN "" ELSE t,
                                    sensor |-> NoSensor, status |-> 0]]
    /\ UNCHANGED <<svc, registryVars, sensorCache, storeVars, ereq, brokerVars, queue,
                   alertingVars>>

\* create_sensor: the duplicate check
CS_Lookup(a) ==
    /\ sreq[a].op = "create" /\ sreq[a].pc = "run"
    /\ IF Registered(sreq[a].device_id)
       THEN sreq' = [sreq EXCEPT ![a].pc = "done", ![a].status = 400]
       ELSE sreq' = [sreq EXCEPT ![a].pc = "create"]
    /\ UNCHANGED <<svc, registryVars, sensorCache, storeVars, ereq, brokerVars, queue,
                   alertingVars>>

\* Sensor.device_id is a unique column: the INSERT of a second row with the
\* identifier raises IntegrityError
UniqueViolation_Unenforced(d) == FALSE

UniqueViolation(d) == Registered(d)

\* create_sensor: CRUDSensor.create; its exception is not handled and the
\* request is answered 500
CS_Create(a) ==
    /\ sreq[a].op = "create" /\ sreq[a].pc = "create"
    /\ IF UniqueViolation(sreq[a].device_id)
       THEN /\ sreq' = [sreq EXCEPT ![a].pc = "done", ![a].status = 500]
            /\ UNCHANGED <<sensors, nextSensorId>>
       ELSE LET row == [id |-> nextSensorId, device_id |-> sreq[a].device_id,
                        device_type |-> sreq[a].device_type] IN
            /\ sensors' = sensors \cup {row}
            /\ nextSensorId' = nextSensorId + 1
            /\ sreq' = [sreq EXCEPT ![a].pc = "cache", ![a].sensor = row]
    /\ UNCHANGED <<svc, sensorCache, storeVars, ereq, brokerVars, queue, alertingVars>>

\* create_sensor: cache the registered sensor and answer 201
CS_Cache(a) ==
    /\ sreq[a].op = "create" /\ sreq[a].pc = "cache"
    /\ sensorCache' = [sensorCache EXCEPT ![sreq[a].device_id] = sreq[a].sensor]
    /\ sreq' = [sreq EXCEPT ![a].pc = "done", ![a].status = 201]
    /\ UNCHANGED <<svc, registryVars, storeVars, ereq, brokerVars, queue, alertingVars>>

\* update_sensor: CRUDSensor.update_by_device_id, the existence check
US_Get(a) ==
    /\ sreq[a].op = "update" /\ sreq[a].pc = "run"
    /\ IF Registered(sreq[a].device_id)
       THEN sreq' = [sreq EXCEPT ![a].pc = "update"]
       ELSE sreq' = [sreq EXCEPT ![a].pc = "done", ![a].status = 404]
    /\ UNCHANGED <<svc, registryVars, sensorCache, storeVars, ereq, brokerVars, queue,
                   alertingVars>>

\* update_sensor: the UPDATE is committed; the handler then calls
\* cache_service.delete_sensor_details, which CacheService does not define,
\* so the request ends in an AttributeError (500) and the cache entry stays
US_Update(a) ==
    /\ sreq[a].op = "update" /\ sreq[a].pc = "update"
    /\ sensors' = {IF s.device_id = sreq[a].device_id
                   THEN [s EXCEPT !.device_type = sreq[a].device_type]
                   ELSE s : s \in sensors}
    /\ sreq' = [sreq EXCEPT ![a].pc = "done", ![a].status = 500]
    /\ UNCHANGED <<svc, nextSensorId, sensorCache, storeVars, ereq, brokerVars, queue,
                   alertingVars>>

\* delete_sensor: CRUDSensor.delete_by_device_id is one DELETE and commit;
\* rows referenced by events are kept by the foreign key; after a successful
\* delete the handler fails on the missing delete_sensor_details (500)
DS_Delete(a) ==
    /\ sreq[a].op = "delete" /\ sreq[a].pc = "run"
    /\ LET s == GetByDeviceId(sreq[a].device_id) IN
       IF s = NoSensor
       THEN /\ sreq' = [sreq EXCEPT ![a].pc = "done", ![a].status = 404]
            /\ UNCHANGED sensors
       ELSE IF EventsReference(s.id)
       THEN /\ sreq' = [sreq EXCEPT ![a].pc = "done", ![a].status = 500]
            /\ UNCHANGED sensors
       ELSE /\ sensors' = sensors \ {s}
            /\ sreq' = [sreq EXCEPT ![a].pc = "done", ![a].status = 500]
    /\ UNCHANGED <<svc, nextSensorId, sensorCache, storeVars, ereq, brokerVars, queue,
                   alertingVars>>

\* the response is sent and the slot is free again
SR_Finish(a) ==
    /\ sreq[a].pc = "done"
    /\ sreq' = [sreq EXCEPT ![a] = IdleSensorReq]
    /\ UNCHANGED <<svc, registryVars, sensorCache, storeVars, ereq, brokerVars, queue,
                   alertingVars>>

\* a "sensor:<device_id>" key reaches SENSOR_CACHE_TTL_SECONDS
ExpireSensorCache(d) ==
    /\ sensorCache[d] # NoSensor
    /\ sensorCache' = [sensorCache EXCEPT ![d] = NoSensor]
    /\ UNCHANGED <<svc, registryVars, storeVars, ereq, sreq, brokerVars, queue,
                   alertingVars>>

\* ------------------------------------------------------------ message broker
BrokerFails ==
    /\ brokerUp
    /\ brokerUp' = FALSE
    /\ UNCHANGED <<svc, registryVars, sensorCache, storeVars, ereq, sreq, mqReady,
                   queue, alertingVars>>

BrokerRecovers ==
    /\ ~brokerUp
    /\ brokerUp' = TRUE
    /\ UNCHANGED <<svc, registryVars, sensorCache, storeVars, ereq, sreq, mqReady,
                   queue, alertingVars>>

\* event_out.model_dump_json(): event_out is the EventRead create_event built
\* from the row it inserted (the device_id read through the row's sensor)
EventMessage(q) ==
    [kind |-> "event", id |-> q.event_id, device_id |-> q.sensor.device_id,
     sensor_id |-> q.sensor.id, timestamp |-> 22,
     event_type |-> q.event_type, data |-> q.data]

\* ------------------------------------------------------------- create_event
ActiveEventReqs == Cardinality({r \in EventReqs : ereq[r].pc \notin {"idle", "done"}})

\* ------------------------------------------------ EventCreate (request body)
BaseFields == {"device_id", "timestamp", "event_type"}

\* the fields AccessControlEvent, RadarSpeedEvent and IntrusionDetectionEvent
\* declare besides those of EventBase and event_type
VariantFields(et) ==
    CASE et = "access_attempt" -> {"user_id"}
      [] et = "speed_violation" -> {"speed_kmh", "location"}
      [] et = "motion_detected" -> {"zone", "confidence", "photo_base64"}
      [] OTHER -> {}

\* SensorDomain.is_valid_event_type
IsValidEventType(et) == et \in EventTypes

\* SensorDomain.get_required_fields: required_fields of the rule of the event
\* type, the empty set standing for None
GetRequiredFields(et) ==
    IF IsValidEventType(et) THEN BaseFields \cup VariantFields(et) ELSE {}

ValidateEventFields_Lenient(et, provided) == [is_valid |-> TRUE, extra_fields |-> {}]

\* ValidationService.validate_event_fields
ValidateEventFields(et, provided) ==
    IF GetRequiredFields(et) = {}
    THEN [is_valid |-> FALSE, extra_fields |-> provided]
    ELSE [is_valid |-> provided \ GetRequiredFields(et) = {},
          extra_fields |-> provided \ GetRequiredFields(et)]

\* RadarSpeedEvent.speed_kmh: Field(..., ge=0, le=300)
SPEED_KMH_GE == 0
SPEED_KMH_LE == 300

\* RadarSpeedEvent.validate_speed_strict (mode='before'): an int that is not
\* a bool
ValidateSpeedStrict(v) == v.type = "number"

\* the ge / le constraints of the int field
SpeedInRange_Unbounded(v) == TRUE

SpeedInRange(v) == v.value >= SPEED_KMH_GE /\ v.value <= SPEED_KMH_LE

\* the validation of the variant's field values (speed_kmh)
ValuesValid(body) ==
    body.event_type = "speed_violation"
       => ValidateSpeedStrict(body.speed_kmh) /\ SpeedInRange(body.speed_kmh)

\* data.get('event_type'), "" standing for None
EventTypeOf(body) == IF "event_type" \in DOMAIN body THEN body.event_type ELSE ""

\* EventCreate.validate_strict_fields, then the validation of the variant the
\* discriminator selects (a required field that is absent is an error)
ValidateRequest(body) ==
    LET et == EventTypeOf(body)
        v == ValidateEventFields(et, DOMAIN body) IN
    IF ~v.is_valid /\ (et = "" \/ ~IsValidEventType(et))
    THEN [type |-> "unknown_event_type", extra_fields |-> {}]
    ELSE IF ~v.is_valid /\ v.extra_fields # {}
    THEN [type |-> "extra_fields_not_allowed", extra_fields |-> v.extra_fields]
    ELSE IF ~IsValidEventType(et)
    THEN [type |-> "union_tag_invalid", extra_fields |-> {}]
    ELSE IF ~((BaseFields \cup VariantFields(et)) \subseteq DOMAIN body)
    THEN [type |-> "missing", extra_fields |-> {}]
    ELSE IF ~ValuesValid(body)
    THEN [type |-> "value_error", extra_fields |-> {}]
    ELSE NoError

\* event_in.root.model_dump(exclude={'device_id', 'timestamp', 'event_type'}):
\* the fields the variant declares
ModelDump(body) == [k \in VariantFields(body.event_type) |-> body[k]]

\* POST /events: the body is validated against EventCreate (422 on an error);
\* device_id is normalised to upper case
CE_Post(r, body) ==
    /\ ereq[r].pc = "idle"
    /\ nextEventId + ActiveEventReqs <= MaxEvents
    /\ LET v == ValidateRequest(body) IN
       IF v # NoError
       THEN ereq' = [ereq EXCEPT ![r] = [IdleEventReq EXCEPT !.pc = "done",
                                           !.status = 422,
                                           !.event_type = EventTypeOf(body),
                                           !.provided = DOMAIN body,
                                           !.data = IF v.type = "value_error"
                                                    THEN ModelDump(body) ELSE << >>,
                                           !.error = v]]
       ELSE ereq' = [ereq EXCEPT ![r] = [IdleEventReq EXCEPT !.pc = "cache_get",
                                           !.device_id = Upper(body.device_id),
                                           !.event_type = body.event_type,
                                           !.provided = DOMAIN body,
                                           !.data = ModelDump(body)]]
    /\ UNCHANGED <<svc, registryVars, sensorCache, storeVars, sreq, brokerVars, queue,
                   alertingVars>>

\* a request body with exactly the fields of its event type
WellFormedBody(raw, et) ==
    Merged([device_id |-> raw, timestamp |-> 22, event_type |-> et], PayloadOf(et))

\* POST /events with a well-formed body
CE_Begin(r, raw, et) == CE_Post(r, WellFormedBody(raw, et))

\* cache_service.get_sensor_details: a hit is used as the sensor record
CE_CacheGet(r) ==
    /\ ereq[r].pc = "cache_get"
    /\ LET c == sensorCache[ereq[r].device_id] IN
       IF c # NoSensor
       THEN ereq' = [ereq EXCEPT ![r].pc = "check", ![r].sensor = c,
                                 ![r].resolved = "cache",
                                 ![r].regAtLookup = Registered(ereq[r].device_id)]
       ELSE ereq' = [ereq EXCEPT ![r].pc = "db_lookup"]
    /\ UNCHANGED <<svc, registryVars, sensorCache, storeVars, sreq, brokerVars, queue,
                   alertingVars>>

\* crud.sensor.get_by_device_id on a cache miss: 403 when there is no row
CE_DbLookup(r) ==
    /\ ereq[r].pc = "db_lookup"
    /\ LET s == GetByDeviceId(ereq[r].device_id) IN
       IF s = NoSensor
       THEN ereq' = [ereq EXCEPT ![r].pc = "done", ![r].status = 403,
                                 ![r].resolved = "not_found"]
       ELSE ereq' = [ereq EXCEPT ![r].pc = "cache_set", ![r].sensor = s,
                                 ![r].resolved = "db", ![r].regAtLookup = TRUE]
    /\ UNCHANGED <<svc, registryVars, sensorCache, storeVars, sreq, brokerVars, queue,
                   alertingVars>>

\* cache_service.set_sensor_details after the registry resolved the miss
CE_CacheSet(r) ==
    /\ ereq[r].pc = "cache_set"
    /\ sensorCache' = [sensorCache EXCEPT ![ereq[r].device_id] = ereq[r].sensor]
    /\ ereq' = [ereq EXCEPT ![r].pc = "check"]
    /\ UNCHANGED <<svc, registryVars, storeVars, sreq, brokerVars, queue, alertingVars>>

\* where create_event continues after crud.event.create: an exception of the
\* commit leaves the handler before the publish
NextAfterInsert_PublishAnyway(committed) == "publish"

NextAfterInsert(committed) == IF committed THEN "publish" ELSE "done"

\* the device/event-type check, then crud.event.create (no await in between);
\* the commit fails when the store is unreachable or the foreign key is violated
CE_CheckInsert(r) ==
    /\ ereq[r].pc = "check"
    /\ LET q == ereq[r]
           regType == GetByDeviceId(q.device_id).device_type IN
       IF ~IsValidDeviceEventCombination(q.sensor.device_type, q.event_type)
       THEN /\ ereq' = [ereq EXCEPT ![r].pc = "done", ![r].status = 400,
                                    ![r].typeAtCheck = regType]
            /\ UNCHANGED storeVars
       ELSE \E storeOk \in BOOLEAN :
            IF storeOk /\ ForeignKeyHolds(q.sensor.id)
            THEN /\ events' = Append(events,
                        [id |-> nextEventId, sensor_id |-> q.sensor.id,
                         timestamp |-> 22, event_type |-> q.event_type,
                         data |-> q.data])
                 /\ nextEventId' = nextEventId + 1
                 /\ ereq' = [ereq EXCEPT ![r].pc = NextAfterInsert(TRUE),
                                         ![r].event_id = nextEventId,
                                         ![r].typeAtCheck = regType]
            ELSE /\ ereq' = [ereq EXCEPT ![r].pc = NextAfterInsert(FALSE),
                                         ![r].status = 500,
                                         ![r].typeAtCheck = regType]
                 /\ UNCHANGED storeVars
    /\ UNCHANGED <<svc, registryVars, sensorCache, sreq, brokerVars, queue, alertingVars>>

\* create_event after publish_event returned or raised: both except branches
\* only log, the handler returns event_out (201)
StatusAfterPublish_Propagate(result) == IF result = "raised" THEN 500 ELSE 201

StatusAfterPublish(result) == 201

\* publish_event with no channel: connect(); its exception leaves publish_event
CE_Connect(r) ==
    /\ ereq[r].pc = "publish"
    /\ ~mqReady
    /\ IF brokerUp
       THEN /\ mqReady' = TRUE
            /\ ereq' = [ereq EXCEPT ![r].connects = @ + 1]
       ELSE /\ mqReady' = FALSE
            /\ ereq' = [ereq EXCEPT ![r].pc = "done", ![r].connects = @ + 1,
                                    ![r].transportFailed = TRUE,
                                    ![r].publishResult = "raised",
                                    ![r].status = StatusAfterPublish("raised")]
    /\ UNCHANGED <<svc, registryVars, sensorCache, storeVars, sreq, brokerUp, queue,
                   alertingVars>>

\* the direct exchange the publisher declares routes a message to the queue
\* once the consumer has declared and bound it (RabbitMQConsumer.connect); a
\* message no binding matches is not queued, and publish returns
RouteToQueue(m) == IF svc.bound THEN Append(queue, m) ELSE queue

\* publish_event: exchange.publish; its exception is logged inside publish_event
CE_Send(r) ==
    /\ ereq[r].pc = "publish"
    /\ mqReady
    /\ IF brokerUp
       THEN /\ queue' = RouteToQueue(EventMessage(ereq[r]))
            /\ ereq' = [ereq EXCEPT ![r].pc = "done", ![r].publishes = @ + 1,
                                    ![r].delivered = TRUE,
                                    ![r].publishResult = "returned",
                                    ![r].status = StatusAfterPublish("returned")]
       ELSE /\ queue' = queue
            /\ ereq' = [ereq EXCEPT ![r].pc = "done", ![r].publishes = @ + 1,
                                    ![r].transportFailed = TRUE,
                                    ![r].publishResult = "returned",
                                    ![r].status = StatusAfterPublish("returned")]
    /\ UNCHANGED <<svc, registryVars, sensorCache, storeVars, sreq, brokerVars,
                   alertingVars>>

\* the response is sent and the slot is free again
CE_Finish(r) ==
    /\ ereq[r].pc = "done"
    /\ ereq' = [ereq EXCEPT ![r] = IdleEventReq]
    /\ UNCHANGED <<svc, registryVars, sensorCache, storeVars, sreq, brokerVars, queue,
                   alertingVars>>

\* =========================================================== alerting service
\* user identifiers of access attempts and of the directory
Users == {"u1", "ghost"}

\* the user identifiers administrators register and delete
DirectoryUsers == {"u1", "u2"}

\* EventReceived.data: null, {} or a map of fields
NullData == [is_null |-> TRUE]
EmptyData == [k \in {} |-> 0]

NoPhoto == "<null>"
NoAlert == [alert_type |-> "<none>"]

\* re.match of MAC_ADDRESS_REGEX on the device identifiers of the model
IsMacAddress(d) == d \in {"AA:01", "aa:01", "BB:02", "bb:02"}

MalformedKinds == {"invalid_json", "undecodable", "not_object", "bad_fields"}

Body(kind, id, d, et, data) ==
    [kind |-> kind, id |-> id, device_id |-> d, sensor_id |-> 1,
     timestamp |-> 22, event_type |-> et, data |-> data]

\* message bodies that reach the queue from other publishers: bodies that do
\* not deserialize, and event envelopes the ingestion service would not send
ForeignBodies ==
    {Body(k, 0, "", "", NullData) : k \in MalformedKinds}
    \cup {Body("event", 11, "AA:01", "access_attempt", [user_id |-> u]) : u \in Users}
    \cup {Body("event", 12, "aa:01", "access_attempt", [user_id |-> "ghost"]),
          Body("event", 13, "zz", "access_attempt", [user_id |-> "ghost"]),
          Body("event", 14, "AA:01", "access_attempt", EmptyData)}

IdleConsumer ==
    [pc |-> "idle", msg |-> Body("", 0, "", "", NullData), parsed |-> FALSE,
     evaluated |-> FALSE, evalError |-> FALSE, createError |-> FALSE,
     cacheError |-> FALSE,
     cacheHit |-> FALSE, dbLooked |-> FALSE, dbFound |-> FALSE,
     repaired |-> FALSE, result |-> NoAlert, committed |-> FALSE,
     persistFailed |-> FALSE, raised |-> FALSE, afterDelete |-> FALSE]

\* no delivery has been settled yet
NoSettlement ==
    [msg |-> Body("", 0, "", "", NullData), outcome |-> "none", requeued |-> FALSE,
     parsed |-> FALSE, evaluated |-> FALSE, evalError |-> FALSE,
     createError |-> FALSE, cacheHit |-> FALSE,
     repaired |-> FALSE, result |-> NoAlert, committed |-> FALSE,
     persistFailed |-> FALSE]

IdleAuthReq == [op |-> "", pc |-> "idle", user |-> "", snapshot |-> {}, status |-> 0]

\* one authorized-user request is in flight at a time
AuthReqs == {1}

\* the alerting process before lifespan runs: RabbitMQConsumer.__init__ has set
\* connection, channel and queue to None and consuming to False. phase is
\* lifespan's position and task the position of the start_consuming task;
\* bound, consumer, prefetch and unacked are the broker's view of the queue
\* and of the channel; warm, lateDelivery and overlap record what happened;
\* run numbers the process among the starts of the service, redelivered
\* records that the broker took a delivery back into the queue
NewProcess ==
    [phase |-> "startup", task |-> "none", consuming |-> FALSE,
     channel |-> "none", connection |-> "none",
     snapshot |-> {}, bound |-> FALSE, consumer |-> FALSE, prefetch |-> 0,
     unacked |-> 0, warm |-> "none", lateDelivery |-> FALSE, overlap |-> FALSE,
     run |-> 1, redelivered |-> FALSE]

\* the alerting process after a startup in which every step succeeded
Running ==
    [NewProcess EXCEPT !.phase = "running", !.task = "loop", !.consuming = TRUE,
                       !.channel = "open", !.connection = "open", !.bound = TRUE,
                       !.consumer = TRUE, !.prefetch = 1, !.warm = "loaded"]

\* lifespan is past its yield
Stopping(phase) == phase \in {"stop_connection", "stop_cache", "stop_task", "stopped"}

\* the queue receives a message from another publisher
InjectMessage(b) ==
    /\ injected < MaxMessages
    /\ Len(queue) < MaxQueue
    /\ queue' = Append(queue, b)
    /\ injected' = injected + 1
    /\ UNCHANGED <<svc, registryVars, sensorCache, storeVars, ereq, sreq, brokerVars,
                   directoryVars, consumerVars>>

\* ------------------------------------------------- RabbitMQConsumer.process_message
\* basic.qos: the broker sends a delivery while the channel's unacknowledged
\* deliveries are below prefetch_count; 0 sets no limit
QosAllows_Unlimited(prefetch, unacked) == TRUE

QosAllows(prefetch, unacked) == prefetch = 0 \/ unacked < prefetch

\* the broker hands the oldest message to the registered consumer, which
\* starts process_message as a task of its own; a delivery that arrives while
\* a process_message is running starts a second one (overlap), whose steps
\* are not followed
Deliver ==
    /\ svc.consumer
    /\ svc.channel = "open"
    /\ svc.phase # "stopped"
    /\ queue # << >>
    /\ QosAllows(svc.prefetch, svc.unacked)
    /\ IF cons.pc = "idle"
       THEN /\ cons' = [IdleConsumer EXCEPT !.pc = "parse", !.msg = Head(queue)]
            /\ svc' = [svc EXCEPT !.unacked = @ + 1,
                                  !.lateDelivery = @ \/ Stopping(svc.phase)]
       ELSE /\ cons' = cons
            /\ svc' = [svc EXCEPT !.unacked = @ + 1, !.overlap = TRUE,
                                  !.lateDelivery = @ \/ Stopping(svc.phase)]
    /\ queue' = Tail(queue)
    /\ UNCHANGED <<registryVars, sensorCache, storeVars, ereq, sreq, brokerVars,
                   directoryVars, alerts, settled, injected>>

\* json.loads(message.body.decode()) and EventReceived(**event_data)
ParseOutcome(b) ==
    CASE b.kind = "invalid_json" -> "JSONDecodeError"
      [] b.kind = "undecodable" -> "UnicodeDecodeError"
      [] b.kind = "not_object" -> "TypeError"
      [] b.kind = "bad_fields" -> "ValidationError"
      [] OTHER -> "ok"

\* except (json.JSONDecodeError, ValueError): UnicodeDecodeError and pydantic's
\* ValidationError are ValueErrors, the TypeError of ** on a non-mapping is not
CaughtByParseHandler(exc) ==
    exc \in {"JSONDecodeError", "UnicodeDecodeError", "ValidationError"}

Parse ==
    /\ cons.pc = "parse"
    /\ LET out == ParseOutcome(cons.msg) IN
       IF out = "ok"
       THEN cons' = [cons EXCEPT !.pc = "eval", !.parsed = TRUE]
       ELSE IF CaughtByParseHandler(out)
       THEN cons' = [cons EXCEPT !.pc = "exit"]
       ELSE cons' = [cons EXCEPT !.pc = "exit", !.raised = TRUE]
    /\ UNCHANGED <<svc, registryVars, sensorCache, storeVars, ereq, sreq, brokerVars,
                   queue, directoryVars, alerts, settled, injected>>

\* ---------------------------------------------------- AlertProcessor.process_event
SPEED_VIOLATION_THRESHOLD == 90

Falsy(data) == data = NullData \/ data = EmptyData

HasField(data, f) == ~Falsy(data) /\ f \in DOMAIN data

\* Python's "restricted in zone" on strings: a contiguous, case-sensitive match
Contains(zone, name) ==
    \E i \in 0..(Len(zone) - Len(name)) : SubSeq(zone, i + 1, i + Len(name)) = name

\* AlertProcessor._is_restricted_area
IsRestrictedArea(zone) ==
    \E restricted \in {RestrictedArea, SecureZone, PrivateArea, ClassifiedZone} :
       Contains(zone, restricted)

IsAfterHours_Inclusive(hour) == hour >= 18 \/ hour <= 6

\* AlertProcessor._is_after_hours
IsAfterHours(hour) == hour >= 18 \/ hour < 6

\* AlertCreate(...): AlertBase.validate_device_id raises unless device_id is a
\* MAC address, and returns it in upper case
AlertCreateRaises_Unvalidated(ev) == FALSE

AlertCreateRaises(ev) == ~IsMacAddress(ev.device_id)

\* the AlertCreate object: AlertBase and AlertCreate declare device_id,
\* alert_type, timestamp and event_id; the photo_base64 keyword is dropped
AlertCreate(ev, alertType, photo) ==
    [event_id |-> ev.id, device_id |-> Upper(ev.device_id),
     alert_type |-> alertType, timestamp |-> ev.timestamp]

\* CRUDAlert.create: the Alert row built from the AlertCreate object
AlertRow(obj) ==
    [event_id |-> obj.event_id, device_id |-> obj.device_id,
     alert_type |-> obj.alert_type, timestamp |-> obj.timestamp,
     photo_base64 |-> IF "photo_base64" \in DOMAIN obj THEN obj.photo_base64
                      ELSE NoPhoto]

\* the ValidationError raised by AlertCreate(...) inside a rule
ValidationFailure == [alert_type |-> "<ValidationError>"]

\* the alert a rule emits, or the ValidationError of AlertCreate
Emit(ev, alertType, photo) ==
    IF AlertCreateRaises(ev) THEN ValidationFailure
    ELSE AlertCreate(ev, alertType, photo)

\* isinstance(speed_kmh, (int, float)); bool is a subclass of int
IsNumber(v) == v.type \in {"number", "float", "boolean"}

ProcessRadarSpeedEvent_AtLeast(ev) ==
    IF ~HasField(ev.data, "speed_kmh") THEN NoAlert
    ELSE IF ~IsNumber(ev.data.speed_kmh) THEN NoAlert
    ELSE IF ev.data.speed_kmh.value < SPEED_VIOLATION_THRESHOLD THEN NoAlert
    ELSE Emit(ev, "speed_violation", NoPhoto)

\* _process_radar_speed_event
ProcessRadarSpeedEvent(ev) ==
    IF ~HasField(ev.data, "speed_kmh") THEN NoAlert
    ELSE IF ~IsNumber(ev.data.speed_kmh) THEN NoAlert
    ELSE IF ev.data.speed_kmh.value <= SPEED_VIOLATION_THRESHOLD THEN NoAlert
    ELSE Emit(ev, "speed_violation", NoPhoto)

\* _process_intrusion_detection_event
ProcessIntrusionDetectionEvent(ev) ==
    IF ~HasField(ev.data, "zone") THEN NoAlert
    ELSE IF ~IsRestrictedArea(ev.data.zone) THEN NoAlert
    ELSE IF ~IsAfterHours(ev.timestamp) THEN NoAlert
    ELSE IF ~HasField(ev.data, "photo_base64") THEN NoAlert
    ELSE IF ev.data.photo_base64 = "" THEN NoAlert
    ELSE Emit(ev, "intrusion_detection", ev.data.photo_base64)

\* process_event's "except Exception": every exception of a rule is logged
\* and answered with None
CaughtByProcessEvent_Propagates == FALSE

CaughtByProcessEvent == TRUE

\* an exception leaves the rule: process_event returns None when it catches
\* it, otherwise it passes through process_message, which re-raises it
Failed(c) ==
    IF CaughtByProcessEvent
    THEN [c EXCEPT !.pc = "persist", !.evaluated = TRUE, !.result = NoAlert]
    ELSE [c EXCEPT !.pc = "exit", !.evaluated = TRUE, !.raised = TRUE]

\* process_event hands the outcome of the rule to process_message
Returned(result) ==
    IF result = ValidationFailure
    THEN Failed([cons EXCEPT !.createError = TRUE])
    ELSE [cons EXCEPT !.pc = "persist", !.evaluated = TRUE, !.result = result]

\* delete_authorized_user for u has answered 204 and no later directory
\* request has begun
DeleteCompleted(u) ==
    \E a \in AuthReqs :
       /\ areq[a].op = "delete" /\ areq[a].pc = "done"
       /\ areq[a].status = 204 /\ areq[a].user = u

\* process_event's if / elif chain on event.event_type: the rule that
\* evaluates the event, "none" for the else branch (string equality)
Dispatch_CaseInsensitive(et) ==
    CASE et \in {"access_attempt", "ACCESS_ATTEMPT"} -> "_process_access_control_event"
      [] et \in {"speed_violation", "SPEED_VIOLATION"} -> "_process_radar_speed_event"
      [] et \in {"motion_detected", "MOTION_DETECTED"} -> "_process_intrusion_detection_event"
      [] OTHER -> "none"

Dispatch(et) ==
    CASE et = "access_attempt" -> "_process_access_control_event"
      [] et = "speed_violation" -> "_process_radar_speed_event"
      [] et = "motion_detected" -> "_process_intrusion_detection_event"
      [] OTHER -> "none"

\* process_event up to its first await: the dispatch on event_type; the radar
\* and intrusion rules run without awaiting (afterDelete records whether the
\* evaluation starts after a completed deletion of its user)
Eval ==
    /\ cons.pc = "eval"
    /\ LET ev == cons.msg
           rule == Dispatch(ev.event_type) IN
       cons' = CASE rule = "_process_access_control_event" ->
                        IF HasField(ev.data, "user_id")
                        THEN [cons EXCEPT !.pc = "acc_cache",
                                          !.afterDelete = DeleteCompleted(ev.data.user_id)]
                        ELSE Returned(NoAlert)
                 [] rule = "_process_radar_speed_event" ->
                        Returned(ProcessRadarSpeedEvent(ev))
                 [] rule = "_process_intrusion_detection_event" ->
                        Returned(ProcessIntrusionDetectionEvent(ev))
                 [] OTHER -> Returned(NoAlert)
    /\ UNCHANGED <<svc, registryVars, sensorCache, storeVars, ereq, sreq, brokerVars,
                   queue, directoryVars, alerts, settled, injected>>

\* SADD authorized_users: the members after the call
SAdd_Dropped(members, new) == members

SAdd(members, new) == members \cup new

\* CacheService.is_user_authorized: SISMEMBER authorized_users user_id
CacheIsUserAuthorized(u) == u \in authCache

\* CRUDAuthorizedUser.is_user_authorized
DbIsUserAuthorized_FromCache(u) == u \in authCache

DbIsUserAuthorized(u) == u \in authUsers

\* CacheService.is_user_authorized: the answer of its except branch
CacheErrorAnswer_Authorized == TRUE

CacheErrorAnswer == FALSE

\* _process_access_control_event: the cache is asked first; when redis is
\* unreachable CacheService.is_user_authorized logs and answers False
AccessCache ==
    /\ cons.pc = "acc_cache"
    /\ \E cacheOk \in BOOLEAN :
       IF IF cacheOk THEN CacheIsUserAuthorized(cons.msg.data.user_id)
          ELSE CacheErrorAnswer
       THEN cons' = [Returned(NoAlert) EXCEPT !.cacheHit = TRUE,
                                              !.cacheError = ~cacheOk]
       ELSE cons' = [cons EXCEPT !.pc = "acc_db", !.cacheError = ~cacheOk]
    /\ UNCHANGED <<svc, registryVars, sensorCache, storeVars, ereq, sreq, brokerVars,
                   queue, directoryVars, alerts, settled, injected>>

\* _process_access_control_event: the directory on a cache miss; an exception
\* of the query is caught by process_event, which returns None
AccessDbOn(storeOutcomes) ==
    /\ cons.pc = "acc_db"
    /\ \E storeOk \in storeOutcomes :
       IF ~storeOk
       THEN cons' = Failed([cons EXCEPT !.evalError = TRUE])
       ELSE IF DbIsUserAuthorized(cons.msg.data.user_id)
       THEN cons' = [cons EXCEPT !.pc = "acc_sadd", !.dbLooked = TRUE, !.dbFound = TRUE]
       ELSE cons' = [Returned(Emit(cons.msg, "unauthorized_access", NoPhoto))
                        EXCEPT !.dbLooked = TRUE]
    /\ UNCHANGED <<svc, registryVars, sensorCache, storeVars, ereq, sreq, brokerVars,
                   queue, directoryVars, alerts, settled, injected>>

AccessDb == AccessDbOn(BOOLEAN)

\* CacheService.add_authorized_user (read-repair): SADD; when redis is
\* unreachable the exception is logged inside add_authorized_user
AccessRepairAdd ==
    /\ cons.pc = "acc_sadd"
    /\ \E cacheOk \in BOOLEAN :
       IF cacheOk
       THEN /\ authCache' = SAdd(authCache, {cons.msg.data.user_id})
            /\ cons' = [cons EXCEPT !.pc = "acc_expire", !.repaired = TRUE]
       ELSE /\ authCache' = authCache
            /\ cons' = [Returned(NoAlert) EXCEPT !.cacheError = TRUE]
    /\ UNCHANGED <<svc, registryVars, sensorCache, storeVars, ereq, sreq, brokerVars,
                   queue, authUsers, authCacheTtl, areq, alerts, settled, injected>>

\* CacheService.add_authorized_user (read-repair): EXPIRE
AccessRepairExpire ==
    /\ cons.pc = "acc_expire"
    /\ \E cacheOk \in BOOLEAN :
       IF cacheOk
       THEN /\ authCacheTtl' = (authCache # {})
            /\ cons' = Returned(NoAlert)
       ELSE /\ authCacheTtl' = authCacheTtl
            /\ cons' = [Returned(NoAlert) EXCEPT !.cacheError = TRUE]
    /\ UNCHANGED <<svc, registryVars, sensorCache, storeVars, ereq, sreq, brokerVars,
                   queue, authUsers, authCache, areq, alerts, settled, injected>>

\* the Alert table: id is the only key, event_id is indexed but not unique
AlertUniqueViolation_PerEvent(obj) ==
    \E i \in 1..Len(alerts) :
       alerts[i].event_id = obj.event_id /\ alerts[i].alert_type = obj.alert_type

AlertUniqueViolation(obj) == FALSE

\* CRUDAlert.create: db.add and commit of a new row
InsertAlert_Replace(rows, row) == <<row>>

InsertAlert(rows, row) == Append(rows, row)

\* crud.alert.create when process_event returned an alert; an exception of
\* the commit is re-raised by process_message
PersistOn(storeOutcomes) ==
    /\ cons.pc = "persist"
    /\ IF cons.result = NoAlert
       THEN /\ cons' = [cons EXCEPT !.pc = "exit"]
            /\ UNCHANGED alerts
       ELSE \E storeOk \in storeOutcomes :
            IF storeOk /\ ~AlertUniqueViolation(cons.result)
            THEN /\ alerts' = InsertAlert(alerts, Merged([id |-> Len(alerts) + 1], AlertRow(cons.result)))
                 /\ cons' = [cons EXCEPT !.pc = "exit", !.committed = TRUE]
            ELSE /\ cons' = [cons EXCEPT !.pc = "exit", !.persistFailed = TRUE,
                                         !.raised = TRUE]
                 /\ UNCHANGED alerts
    /\ UNCHANGED <<svc, registryVars, sensorCache, storeVars, ereq, sreq, brokerVars,
                   queue, directoryVars, settled, injected>>

Persist == PersistOn(BOOLEAN)

\* message.process() is entered without arguments: requeue defaults to False
ProcessRequeue == FALSE

\* leaving "async with message.process()": ack on a normal exit, reject when
\* an exception passes through
SettleOutcome_AlwaysAck(raised) == "ack"

SettleOutcome(raised) == IF raised THEN "reject" ELSE "ack"

\* on a closed channel ack and reject raise: the delivery stays unsettled
\* (the broker took it back when the channel closed)
Exit ==
    /\ cons.pc = "exit"
    /\ LET outcome == IF svc.channel = "open" THEN SettleOutcome(cons.raised)
                      ELSE "unsettled"
           requeued == outcome = "reject" /\ ProcessRequeue IN
       /\ settled' = [msg |-> cons.msg, outcome |-> outcome, requeued |-> requeued,
                       parsed |-> cons.parsed, evaluated |-> cons.evaluated,
                       evalError |-> cons.evalError,
                       createError |-> cons.createError, cacheHit |-> cons.cacheHit,
                       repaired |-> cons.repaired,
                       result |-> cons.result, committed |-> cons.committed,
                       persistFailed |-> cons.persistFailed]
       /\ queue' = IF requeued THEN <<cons.msg>> \o queue ELSE queue
    /\ cons' = IdleConsumer
    /\ svc' = IF svc.channel = "open" THEN [svc EXCEPT !.unacked = @ - 1] ELSE svc
    /\ UNCHANGED <<registryVars, sensorCache, storeVars, ereq, sreq, brokerVars,
                   directoryVars, alerts, injected>>

\* ------------------------------------------------ authorized-user directory
AR_Begin(a, op, u) ==
    /\ areq[a].pc = "idle"
    /\ areq' = [areq EXCEPT ![a] = [IdleAuthReq EXCEPT !.op = op, !.pc = "run", !.user = u]]
    /\ UNCHANGED <<svc, registryVars, sensorCache, storeVars, ereq, sreq, brokerVars,
                   queue, authUsers, authCache, authCacheTtl, consumerVars, injected>>

\* create_authorized_user: the duplicate check
CU_Lookup(a) ==
    /\ areq[a].op = "create" /\ areq[a].pc = "run"
    /\ IF areq[a].user \in authUsers
       THEN areq' = [areq EXCEPT ![a].pc = "done", ![a].status = 400]
       ELSE areq' = [areq EXCEPT ![a].pc = "create"]
    /\ UNCHANGED <<svc, registryVars, sensorCache, storeVars, ereq, sreq, brokerVars,
                   queue, authUsers, authCache, authCacheTtl, consumerVars, injected>>

\* create_authorized_user: CRUDAuthorizedUser.create (user_id is unique)
CU_Create(a) ==
    /\ areq[a].op = "create" /\ areq[a].pc = "create"
    /\ IF areq[a].user \in authUsers
       THEN /\ areq' = [areq EXCEPT ![a].pc = "done", ![a].status = 500]
            /\ UNCHANGED authUsers
       ELSE /\ authUsers' = authUsers \cup {areq[a].user}
            /\ areq' = [areq EXCEPT ![a].pc = "sadd"]
    /\ UNCHANGED <<svc, registryVars, sensorCache, storeVars, ereq, sreq, brokerVars,
                   queue, authCache, authCacheTtl, consumerVars, injected>>

\* create_authorized_user: cache_service.add_authorized_user, SADD
CU_CacheAdd(a) ==
    /\ areq[a].op = "create" /\ areq[a].pc = "sadd"
    /\ authCache' = SAdd(authCache, {areq[a].user})
    /\ areq' = [areq EXCEPT ![a].pc = "expire"]
    /\ UNCHANGED <<svc, registryVars, sensorCache, storeVars, ereq, sreq, brokerVars,
                   queue, authUsers, authCacheTtl, consumerVars, injected>>

\* create_authorized_user: cache_service.add_authorized_user, EXPIRE; 201
CU_CacheExpire(a) ==
    /\ areq[a].op = "create" /\ areq[a].pc = "expire"
    /\ authCacheTtl' = (authCache # {})
    /\ areq' = [areq EXCEPT ![a].pc = "done", ![a].status = 201]
    /\ UNCHANGED <<svc, registryVars, sensorCache, storeVars, ereq, sreq, brokerVars,
                   queue, authUsers, authCache, consumerVars, injected>>

\* delete_authorized_user: CRUDAuthorizedUser.delete, 404 when there is no row
DU_Delete(a) ==
    /\ areq[a].op = "delete" /\ areq[a].pc = "run"
    /\ IF areq[a].user \in authUsers
       THEN /\ authUsers' = authUsers \ {areq[a].user}
            /\ areq' = [areq EXCEPT ![a].pc = "get_all"]
       ELSE /\ areq' = [areq EXCEPT ![a].pc = "done", ![a].status = 404]
            /\ UNCHANGED authUsers
    /\ UNCHANGED <<svc, registryVars, sensorCache, storeVars, ereq, sreq, brokerVars,
                   queue, authCache, authCacheTtl, consumerVars, injected>>

\* delete_authorized_user: crud.authorized_user.get_all, the snapshot to cache
DU_GetAll(a) ==
    /\ areq[a].op = "delete" /\ areq[a].pc = "get_all"
    /\ areq' = [areq EXCEPT ![a].pc = "cache_delete", ![a].snapshot = authUsers]
    /\ UNCHANGED <<svc, registryVars, sensorCache, storeVars, ereq, sreq, brokerVars,
                   queue, authUsers, authCache, authCacheTtl, consumerVars, injected>>

\* set_authorized_users: DEL authorized_users
DU_CacheDelete(a) ==
    /\ areq[a].op = "delete" /\ areq[a].pc = "cache_delete"
    /\ authCache' = {}
    /\ authCacheTtl' = FALSE
    /\ IF areq[a].snapshot = {}
       THEN areq' = [areq EXCEPT ![a].pc = "done", ![a].status = 204]
       ELSE areq' = [areq EXCEPT ![a].pc = "cache_sadd"]
    /\ UNCHANGED <<svc, registryVars, sensorCache, storeVars, ereq, sreq, brokerVars,
                   queue, authUsers, consumerVars, injected>>

\* set_authorized_users: SADD authorized_users *user_ids
DU_CacheSAdd(a) ==
    /\ areq[a].op = "delete" /\ areq[a].pc = "cache_sadd"
    /\ authCache' = SAdd(authCache, areq[a].snapshot)
    /\ areq' = [areq EXCEPT ![a].pc = "cache_expire"]
    /\ UNCHANGED <<svc, registryVars, sensorCache, storeVars, ereq, sreq, brokerVars,
                   queue, authUsers, authCacheTtl, consumerVars, injected>>

\* set_authorized_users: EXPIRE authorized_users; 204
DU_CacheExpire(a) ==
    /\ areq[a].op = "delete" /\ areq[a].pc = "cache_expire"
    /\ authCacheTtl' = (authCache # {})
    /\ areq' = [areq EXCEPT ![a].pc = "done", ![a].status = 204]
    /\ UNCHANGED <<svc, registryVars, sensorCache, storeVars, ereq, sreq, brokerVars,
                   queue, authUsers, authCache, consumerVars, injected>>

AR_Finish(a) ==
    /\ areq[a].pc = "done"
    /\ areq' = [areq EXCEPT ![a] = IdleAuthReq]
    /\ UNCHANGED <<svc, registryVars, sensorCache, storeVars, ereq, sreq, brokerVars,
                   queue, authUsers, authCache, authCacheTtl, consumerVars, injected>>

\* the key "authorized_users" reaches AUTHORIZED_USERS_CACHE_TTL
ExpireAuthCache_Never ==
    /\ authCacheTtl
    /\ UNCHANGED vars

ExpireAuthCache ==
    /\ authCacheTtl
    /\ authCache' = {}
    /\ authCacheTtl' = FALSE
    /\ UNCHANGED <<svc, registryVars, sensorCache, storeVars, ereq, sreq, brokerVars,
                   queue, authUsers, areq, consumerVars, injected>>

\* ------------------------------------------- alerting service startup, shutdown
\* initialize_authorized_users_cache: crud.authorized_user.get_all; every
\* exception of the function is logged and lifespan goes on
W_GetAll ==
    /\ svc.phase = "startup"
    /\ \E storeOk \in BOOLEAN :
       IF storeOk
       THEN svc' = [svc EXCEPT !.phase = "warm_delete", !.snapshot = authUsers]
       ELSE svc' = [svc EXCEPT !.phase = "spawn", !.warm = "failed"]
    /\ UNCHANGED <<registryVars, sensorCache, storeVars, ereq, sreq, brokerVars,
                   queue, directoryVars, consumerVars, injected>>

\* set_authorized_users: DEL authorized_users; redis errors are logged inside
W_CacheDelete ==
    /\ svc.phase = "warm_delete"
    /\ \E cacheOk \in BOOLEAN :
       IF cacheOk
       THEN /\ authCache' = {}
            /\ authCacheTtl' = FALSE
            /\ svc' = IF svc.snapshot = {}
                      THEN [svc EXCEPT !.phase = "spawn", !.warm = "loaded"]
                      ELSE [svc EXCEPT !.phase = "warm_sadd"]
       ELSE /\ UNCHANGED <<authCache, authCacheTtl>>
            /\ svc' = [svc EXCEPT !.phase = "spawn", !.warm = "failed"]
    /\ UNCHANGED <<registryVars, sensorCache, storeVars, ereq, sreq, brokerVars,
                   queue, authUsers, areq, consumerVars, injected>>

\* set_authorized_users: SADD authorized_users *user_ids
W_CacheSAdd ==
    /\ svc.phase = "warm_sadd"
    /\ \E cacheOk \in BOOLEAN :
       IF cacheOk
       THEN /\ authCache' = SAdd(authCache, svc.snapshot)
            /\ svc' = [svc EXCEPT !.phase = "warm_expire", !.warm = "loaded"]
       ELSE /\ authCache' = authCache
            /\ svc' = [svc EXCEPT !.phase = "spawn", !.warm = "failed"]
    /\ UNCHANGED <<registryVars, sensorCache, storeVars, ereq, sreq, brokerVars,
                   queue, authUsers, authCacheTtl, areq, consumerVars, injected>>

\* set_authorized_users: EXPIRE authorized_users
W_CacheExpire ==
    /\ svc.phase = "warm_expire"
    /\ \E cacheOk \in BOOLEAN :
       authCacheTtl' = IF cacheOk THEN authCache # {} ELSE authCacheTtl
    /\ svc' = [svc EXCEPT !.phase = "spawn"]
    /\ UNCHANGED <<registryVars, sensorCache, storeVars, ereq, sreq, brokerVars,
                   queue, authUsers, authCache, areq, consumerVars, injected>>

\* lifespan: asyncio.create_task(start_consuming()), then the yield
L_CreateTask ==
    /\ svc.phase = "spawn"
    /\ svc' = [svc EXCEPT !.phase = "running", !.task = "start"]
    /\ UNCHANGED <<registryVars, sensorCache, storeVars, ereq, sreq, brokerVars,
                   queue, directoryVars, consumerVars, injected>>

\* start_consuming: self.queue is None, so connect(): connection, channel,
\* exchange, queue and binding; its exception ends the task
T_Connect ==
    /\ svc.task = "start"
    /\ svc' = IF brokerUp
              THEN [svc EXCEPT !.task = "qos", !.connection = "open",
                               !.channel = "open", !.bound = TRUE]
              ELSE [svc EXCEPT !.task = "failed"]
    /\ UNCHANGED <<registryVars, sensorCache, storeVars, ereq, sreq, brokerVars,
                   queue, directoryVars, consumerVars, injected>>

\* the channel takes commands
ChannelUsable == brokerUp /\ svc.channel = "open"

\* start_consuming: consuming = True and channel.set_qos(prefetch_count=1)
T_SetQos ==
    /\ svc.task = "qos"
    /\ svc' = IF ChannelUsable
              THEN [svc EXCEPT !.task = "consume", !.consuming = TRUE, !.prefetch = 1]
              ELSE [svc EXCEPT !.task = "failed", !.consuming = FALSE]
    /\ UNCHANGED <<registryVars, sensorCache, storeVars, ereq, sreq, brokerVars,
                   queue, directoryVars, consumerVars, injected>>

\* start_consuming: queue.consume(self.process_message)
T_Consume ==
    /\ svc.task = "consume"
    /\ svc' = IF ChannelUsable
              THEN [svc EXCEPT !.task = "loop", !.consumer = TRUE]
              ELSE [svc EXCEPT !.task = "failed", !.consuming = FALSE]
    /\ UNCHANGED <<registryVars, sensorCache, storeVars, ereq, sreq, brokerVars,
                   queue, directoryVars, consumerVars, injected>>

\* start_consuming: "while self.consuming" finds the flag cleared
T_LoopExit ==
    /\ svc.task = "loop"
    /\ ~svc.consuming
    /\ svc' = [svc EXCEPT !.task = "done"]
    /\ UNCHANGED <<registryVars, sensorCache, storeVars, ereq, sreq, brokerVars,
                   queue, directoryVars, consumerVars, injected>>

\* lifespan after the yield: stop_consuming clears the flag and, when
\* self.channel is set, closes the channel. The broker takes the
\* unacknowledged delivery back into the queue; the process_message task is
\* cancelled by the close or runs on, depending on the client library
L_StopConsuming ==
    /\ svc.phase = "running"
    /\ IF svc.channel = "open"
       THEN /\ svc' = [svc EXCEPT !.phase = "stop_connection", !.consuming = FALSE,
                                  !.channel = "closed", !.consumer = FALSE,
                                  !.unacked = 0,
                                  !.redelivered = @ \/ cons.pc # "idle"]
            /\ queue' = IF cons.pc # "idle" THEN <<cons.msg>> \o queue ELSE queue
            /\ \E cancelled \in BOOLEAN :
                  /\ cancelled => cons.pc # "idle"
                  /\ cons' = IF cancelled THEN IdleConsumer ELSE cons
       ELSE /\ svc' = [svc EXCEPT !.phase = "stop_cache", !.consuming = FALSE]
            /\ UNCHANGED <<queue, cons>>
    /\ UNCHANGED <<registryVars, sensorCache, storeVars, ereq, sreq, brokerVars,
                   directoryVars, alerts, settled, injected>>

\* stop_consuming: connection.close()
L_CloseConnection ==
    /\ svc.phase = "stop_connection"
    /\ svc' = [svc EXCEPT !.phase = "stop_cache", !.connection = "closed"]
    /\ UNCHANGED <<registryVars, sensorCache, storeVars, ereq, sreq, brokerVars,
                   queue, directoryVars, consumerVars, injected>>

\* lifespan: cache_service.close()
L_CacheClose ==
    /\ svc.phase = "stop_cache"
    /\ svc' = [svc EXCEPT !.phase = "stop_task"]
    /\ UNCHANGED <<registryVars, sensorCache, storeVars, ereq, sreq, brokerVars,
                   queue, directoryVars, consumerVars, injected>>

\* lifespan: consumer_task.cancel() unless the task is done
L_CancelTask ==
    /\ svc.phase = "stop_task"
    /\ svc' = [svc EXCEPT !.phase = "stopped",
                          !.task = IF @ \in {"done", "failed"} THEN @ ELSE "cancelled"]
    /\ UNCHANGED <<registryVars, sensorCache, storeVars, ereq, sreq, brokerVars,
                   queue, directoryVars, consumerVars, injected>>

\* the service is started again after it stopped: a new process runs
\* lifespan, the tasks of the old process are gone; the queue, the stores and
\* the cache are kept by their servers
L_Restart ==
    /\ svc.phase = "stopped"
    /\ svc.run < MaxRuns
    /\ svc' = [NewProcess EXCEPT !.run = svc.run + 1, !.bound = svc.bound,
                                 !.redelivered = svc.redelivered]
    /\ cons' = IdleConsumer
    /\ UNCHANGED <<registryVars, sensorCache, storeVars, ereq, sreq, brokerVars,
                   queue, directoryVars, alerts, settled, injected>>

StartupNext ==
    \/ W_GetAll
    \/ W_CacheDelete
    \/ W_CacheSAdd
    \/ W_CacheExpire
    \/ L_CreateTask
    \/ T_Connect
    \/ T_SetQos
    \/ T_Consume

ShutdownNext ==
    \/ T_LoopExit
    \/ L_StopConsuming
    \/ L_CloseConnection
    \/ L_CacheClose
    \/ L_CancelTask

\* ------------------------------------------------------------ specifications
\* both services after startup: empty stores and caches; the publisher's
\* startup connect() succeeded or failed with the broker
Init ==
    /\ sensors = {}
    /\ nextSensorId = 1
    /\ sensorCache = [d \in DeviceIds |-> NoSensor]
    /\ events = << >>
    /\ nextEventId = 1
    /\ ereq = [r \in EventReqs |-> IdleEventReq]
    /\ sreq = [a \in SensorSlots |-> IdleSensorReq]
    /\ brokerUp \in BOOLEAN
    /\ mqReady = brokerUp
    /\ queue = << >>
    /\ authUsers = {}
    /\ authCache = {}
    /\ authCacheTtl = FALSE
    /\ alerts = << >>
    /\ cons = IdleConsumer
    /\ settled = NoSettlement
    /\ injected = 0
    /\ areq = [a \in AuthReqs |-> IdleAuthReq]
    /\ svc = Running

SensorRegistryNext ==
    \/ \E a \in SensorReqs, op \in {"create", "update", "delete"},
          d \in DeviceIds, t \in DeviceTypes : SR_Begin(a, op, d, t)
    \/ \E a \in SensorReqs : CS_Lookup(a)
    \/ \E a \in SensorReqs : CS_Create(a)
    \/ \E a \in SensorReqs : CS_Cache(a)
    \/ \E a \in SensorReqs : US_Get(a)
    \/ \E a \in SensorReqs : US_Update(a)
    \/ \E a \in SensorReqs : DS_Delete(a)
    \/ \E a \in SensorReqs : SR_Finish(a)
    \/ \E d \in DeviceIds : ExpireSensorCache(d)

CreateEventNext ==
    \/ \E r \in EventReqs, raw \in RawDeviceIds, et \in EventTypes : CE_Begin(r, raw, et)
    \/ \E r \in EventReqs : CE_CacheGet(r)
    \/ \E r \in EventReqs : CE_DbLookup(r)
    \/ \E r \in EventReqs : CE_CacheSet(r)
    \/ \E r \in EventReqs : CE_CheckInsert(r)
    \/ \E r \in EventReqs : CE_Connect(r)
    \/ \E r \in EventReqs : CE_Send(r)
    \/ \E r \in EventReqs : CE_Finish(r)
    \/ BrokerFails
    \/ BrokerRecovers

ConsumerNext ==
    \/ Deliver
    \/ Parse
    \/ Eval
    \/ AccessCache
    \/ AccessDb
    \/ AccessRepairAdd
    \/ AccessRepairExpire
    \/ Persist
    \/ Exit

DirectoryNext ==
    \/ \E a \in AuthReqs, op \in {"create", "delete"}, u \in DirectoryUsers : AR_Begin(a, op, u)
    \/ \E a \in AuthReqs : CU_Lookup(a)
    \/ \E a \in AuthReqs : CU_Create(a)
    \/ \E a \in AuthReqs : CU_CacheAdd(a)
    \/ \E a \in AuthReqs : CU_CacheExpire(a)
    \/ \E a \in AuthReqs : DU_Delete(a)
    \/ \E a \in AuthReqs : DU_GetAll(a)
    \/ \E a \in AuthReqs : DU_CacheDelete(a)
    \/ \E a \in AuthReqs : DU_CacheSAdd(a)
    \/ \E a \in AuthReqs : DU_CacheExpire(a)
    \/ \E a \in AuthReqs : AR_Finish(a)
    \/ ExpireAuthCache

\* ------------------------------------------------- the rules on single events
SpeedPayloads ==
    {[speed_kmh |-> JsonNumber(n), location |-> "Zone A"] : n \in {0, 89, 90, 91, 300}}
    \cup {[speed_kmh |-> JsonString, location |-> "Zone A"],
          [speed_kmh |-> JsonNull, location |-> "Zone A"],
          [location |-> "Zone A"], NullData}

Zones ==
    {RestrictedArea, ClassifiedZone,
     SecureZone \o <<" ", "2">>,
     <<"X", " ">> \o PrivateArea,
     <<"r", "e", "s", "t", "r", "i", "c", "t", "e", "d", " ", "a", "r", "e", "a">>,
     <<"S", "e", "c", "u", "r", "e">>,
     <<"L", "o", "b", "b", "y">>}

MotionPayloads ==
    {[zone |-> z, confidence |-> 1, photo_base64 |-> p] : z \in Zones, p \in {"img", ""}}
    \cup {[zone |-> z, confidence |-> 1] : z \in Zones}
    \cup {[confidence |-> 1, photo_base64 |-> "img"]}

\* the hours around the two ends of the after-hours window
Hours == {5, 6, 17, 18}

\* deserialized speed_violation and motion_detected events
RuleBodies ==
    {Body("event", 21, d, "speed_violation", data) :
        d \in {"AA:01", "aa:01", "zz"}, data \in SpeedPayloads}
    \cup {[Body("event", 22, d, "motion_detected", data) EXCEPT !.timestamp = h] :
            d \in {"AA:01", "zz"}, data \in MotionPayloads, h \in Hours}

\* the ingestion service
IngestNext == SensorRegistryNext \/ CreateEventNext

SpecIngest == Init /\ [][IngestNext]_vars

\* the alerting service, its queue fed by other publishers
AlertNext ==
    \/ \E b \in ForeignBodies : InjectMessage(b)
    \/ ConsumerNext
    \/ DirectoryNext

\* the alerting service starts with the broker reachable
InitAlert == Init /\ brokerUp = TRUE

SpecAlert == InitAlert /\ [][AlertNext]_vars

\* one delivery under evaluation: process_message has deserialized the body
\* and is about to call process_event
InitRules ==
    /\ sensors = {}
    /\ nextSensorId = 1
    /\ sensorCache = [d \in DeviceIds |-> NoSensor]
    /\ events = << >>
    /\ nextEventId = 1
    /\ ereq = [r \in EventReqs |-> IdleEventReq]
    /\ sreq = [a \in SensorSlots |-> IdleSensorReq]
    /\ brokerUp = TRUE
    /\ mqReady = TRUE
    /\ queue = << >>
    /\ authUsers = {}
    /\ authCache = {}
    /\ authCacheTtl = FALSE
    /\ alerts = << >>
    /\ cons \in {[IdleConsumer EXCEPT !.pc = "eval", !.parsed = TRUE, !.msg = b] :
                    b \in RuleBodies}
    /\ settled = NoSettlement
    /\ injected = 0
    /\ areq = [a \in AuthReqs |-> IdleAuthReq]
    /\ svc = [Running EXCEPT !.unacked = 1]

RulesNext == Eval \/ Persist \/ Exit

SpecRules == InitRules /\ [][RulesNext]_vars

\* access_attempt events of the users administrators register and delete
DirectoryBodies ==
    {Body("event", 41, "AA:01", "access_attempt", [user_id |-> u]) : u \in DirectoryUsers}

\* the directory endpoints and the consumer's read-repair share the cache; the
\* key expires once its TTL has run out
CacheLiveNext ==
    \/ \E b \in DirectoryBodies : InjectMessage(b)
    \/ ConsumerNext
    \/ DirectoryNext

CacheLiveFairness == WF_vars(ExpireAuthCache)

SpecCacheLive == InitAlert /\ [][CacheLiveNext]_vars /\ CacheLiveFairness

\* event types process_event has no rule for
UnknownEventTypes == {"door_forced", "", "SPEED_VIOLATION"}

\* payloads that satisfy the rule of their own event type
AlertingPayloads ==
    {[user_id |-> "ghost"],
     [speed_kmh |-> JsonNumber(300), location |-> "Zone A"],
     [zone |-> RestrictedArea, confidence |-> 1, photo_base64 |-> "img"]}

\* deserialized events of every known event type and of unknown ones
DispatchBodies ==
    {Body("event", 31, "AA:01", "access_attempt", [user_id |-> u]) : u \in Users}
    \cup {Body("event", 32, "AA:01", "speed_violation",
                [speed_kmh |-> JsonNumber(n), location |-> "Zone A"]) : n \in {89, 300}}
    \cup {Body("event", 33, "AA:01", et, data) :
             et \in EventTypes \cup UnknownEventTypes, data \in AlertingPayloads}

\* one delivery about to be evaluated, of any event type
InitDispatch ==
    /\ sensors = {}
    /\ nextSensorId = 1
    /\ sensorCache = [d \in DeviceIds |-> NoSensor]
    /\ events = << >>
    /\ nextEventId = 1
    /\ ereq = [r \in EventReqs |-> IdleEventReq]
    /\ sreq = [a \in SensorSlots |-> IdleSensorReq]
    /\ brokerUp = TRUE
    /\ mqReady = TRUE
    /\ queue = << >>
    /\ authUsers \in {{}, {"u1"}}
    /\ authCache \in SUBSET authUsers
    /\ authCacheTtl = (authCache # {})
    /\ alerts = << >>
    /\ cons \in {[IdleConsumer EXCEPT !.pc = "eval", !.parsed = TRUE, !.msg = b] :
                    b \in DispatchBodies}
    /\ settled = NoSettlement
    /\ injected = 0
    /\ areq = [a \in AuthReqs |-> IdleAuthReq]
    /\ svc = [Running EXCEPT !.unacked = 1]

DispatchNext ==
    \/ Eval
    \/ AccessCache
    \/ AccessDb
    \/ AccessRepairAdd
    \/ AccessRepairExpire
    \/ Persist
    \/ Exit

SpecDispatch == InitDispatch /\ [][DispatchNext]_vars

\* --------------------------------------------- create_event on any request body
Without(body, f) == [k \in DOMAIN body \ {f} |-> body[k]]

\* request bodies: exact field sets, fields of another variant or unknown
\* fields added, a required field left out, both, and event types that are
\* unknown or absent
RequestBodies ==
    LET exact == {WellFormedBody("aa:01", et) : et \in EventTypes}
        extras == {[user_id |-> "ghost"], [speed_kmh |-> JsonNumber(120)],
                   [note |-> "x"]} IN
    exact
    \cup {Merged(b, x) : b \in exact, x \in extras}
    \cup {Without(b, f) : b \in exact, f \in {"user_id", "location", "photo_base64"}}
    \cup {Without(Merged(b, [note |-> "x"]), f) : b \in exact, f \in {"user_id", "location", "zone"}}
    \cup {[WellFormedBody("aa:01", "access_attempt") EXCEPT !.event_type = "door_forced"],
          Without(WellFormedBody("aa:01", "access_attempt"), "event_type")}

ValidateNext ==
    \/ \E r \in EventReqs, body \in RequestBodies : CE_Post(r, body)
    \/ \E r \in EventReqs : CE_CacheGet(r)
    \/ \E r \in EventReqs : CE_DbLookup(r)
    \/ \E r \in EventReqs : CE_CacheSet(r)
    \/ \E r \in EventReqs : CE_CheckInsert(r)
    \/ \E r \in EventReqs : CE_Connect(r)
    \/ \E r \in EventReqs : CE_Send(r)
    \/ \E r \in EventReqs : CE_Finish(r)
    \/ \E a \in SensorReqs, d \in DeviceIds, t \in DeviceTypes : SR_Begin(a, "create", d, t)
    \/ \E a \in SensorReqs : CS_Lookup(a)
    \/ \E a \in SensorReqs : CS_Create(a)
    \/ \E a \in SensorReqs : CS_Cache(a)
    \/ \E a \in SensorReqs : SR_Finish(a)

SpecValidate == Init /\ [][ValidateNext]_vars

\* the alerting process from its start to its end; the directory holds the
\* rows of earlier runs
InitLifecycle ==
    /\ sensors = {}
    /\ nextSensorId = 1
    /\ sensorCache = [d \in DeviceIds |-> NoSensor]
    /\ events = << >>
    /\ nextEventId = 1
    /\ ereq = [r \in EventReqs |-> IdleEventReq]
    /\ sreq = [a \in SensorSlots |-> IdleSensorReq]
    /\ brokerUp \in BOOLEAN
    /\ mqReady = brokerUp
    /\ queue = << >>
    /\ authUsers \in {{}, {"u1"}}
    /\ authCache = {}
    /\ authCacheTtl = FALSE
    /\ alerts = << >>
    /\ cons = IdleConsumer
    /\ settled = NoSettlement
    /\ injected = 0
    /\ areq = [a \in AuthReqs |-> IdleAuthReq]
    /\ svc = NewProcess

LifecycleNext ==
    \/ \E b \in ForeignBodies : InjectMessage(b)
    \/ StartupNext
    \/ ConsumerNext
    \/ ShutdownNext

SpecLifecycle == InitLifecycle /\ [][LifecycleNext]_vars

\* both services with the store and the broker available, from the start of
\* the alerting process on: sensors are registered, events are posted, the
\* alerting service starts up and consumes
InitLive ==
    /\ InitLifecycle
    /\ brokerUp = TRUE

\* process_message with the store available
LiveConsumerNext ==
    \/ Deliver
    \/ Parse
    \/ Eval
    \/ AccessCache
    \/ AccessDbOn({TRUE})
    \/ PersistOn({TRUE})
    \/ Exit

LiveNext ==
    \/ \E a \in SensorReqs, d \in DeviceIds, t \in DeviceTypes : SR_Begin(a, "create", d, t)
    \/ \E a \in SensorReqs : CS_Lookup(a)
    \/ \E a \in SensorReqs : CS_Create(a)
    \/ \E a \in SensorReqs : CS_Cache(a)
    \/ \E a \in SensorReqs : SR_Finish(a)
    \/ \E r \in EventReqs, raw \in RawDeviceIds, et \in EventTypes : CE_Begin(r, raw, et)
    \/ \E r \in EventReqs : CE_CacheGet(r)
    \/ \E r \in EventReqs : CE_DbLookup(r)
    \/ \E r \in EventReqs : CE_CacheSet(r)
    \/ \E r \in EventReqs : CE_CheckInsert(r)
    \/ \E r \in EventReqs : CE_Send(r)
    \/ \E r \in EventReqs : CE_Finish(r)
    \/ StartupNext
    \/ LiveConsumerNext

\* the event loop runs every task that is ready (the startup of lifespan, the
\* start_consuming task, a process_message), and the broker delivers to a
\* registered consumer whose prefetch window is free
LiveFairness == WF_vars(StartupNext) /\ WF_vars(LiveConsumerNext)

SpecLive == InitLive /\ [][LiveNext]_vars /\ LiveFairness

\* the k-th message of the ingestion service carries event id k: one message
\* per stored event
PublishedBodies ==
    {Body("event", injected + 1, "AA:01", "speed_violation",
          [speed_kmh |-> JsonNumber(n), location |-> "Zone A"]) : n \in {89, 300}}

\* the alerting process is started, consumes, is stopped and started again,
\* with the store available
RedeliverNext ==
    \/ \E b \in PublishedBodies : InjectMessage(b)
    \/ StartupNext
    \/ Deliver
    \/ Parse
    \/ Eval
    \/ PersistOn({TRUE})
    \/ Exit
    \/ ShutdownNext
    \/ L_Restart

SpecRedeliver == InitLifecycle /\ [][RedeliverNext]_vars

\* speed_violation requests with speeds at and around the limits of the
\* schema and of other JSON types
SpeedValues ==
    {JsonNumber(n) : n \in {-1, 0, 150, 300, 301}}
    \cup {JsonFloat(150), JsonBool(TRUE), JsonNumericString(150), JsonNull}

SpeedBodies ==
    {[WellFormedBody("AA:01", "speed_violation") EXCEPT !.speed_kmh = v] : v \in SpeedValues}

\* radars are registered, speed events are posted, stored, published and
\* evaluated
SpeedNext ==
    \/ \E a \in SensorReqs, d \in DeviceIds : SR_Begin(a, "create", d, "radar")
    \/ \E a \in SensorReqs : CS_Lookup(a)
    \/ \E a \in SensorReqs : CS_Create(a)
    \/ \E a \in SensorReqs : CS_Cache(a)
    \/ \E a \in SensorReqs : SR_Finish(a)
    \/ \E r \in EventReqs, body \in SpeedBodies : CE_Post(r, body)
    \/ \E r \in EventReqs : CE_CacheGet(r)
    \/ \E r \in EventReqs : CE_DbLookup(r)
    \/ \E r \in EventReqs : CE_CacheSet(r)
    \/ \E r \in EventReqs : CE_CheckInsert(r)
    \/ \E r \in EventReqs : CE_Connect(r)
    \/ \E r \in EventReqs : CE_Send(r)
    \/ \E r \in EventReqs : CE_Finish(r)
    \/ Deliver
    \/ Parse
    \/ Eval
    \/ Persist
    \/ Exit

SpecSpeed == Init /\ [][SpeedNext]_vars

\* create_sensor requests, two of them in flight at a time
RegistryNext ==
    \/ \E a \in SensorSlots, d \in DeviceIds, t \in DeviceTypes : SR_Begin(a, "create", d, t)
    \/ \E a \in SensorSlots : CS_Lookup(a)
    \/ \E a \in SensorSlots : CS_Create(a)
    \/ \E a \in SensorSlots : CS_Cache(a)
    \/ \E a \in SensorSlots : SR_Finish(a)

SpecRegistry == Init /\ [][RegistryNext]_vars

Next == IngestNext \/ AlertNext \/ StartupNext \/ ShutdownNext \/ RegistryNext

Spec == Init /\ [][Next]_vars

\* ================================================================ properties
EventRow(id) == CHOOSE e \in {events[i] : i \in 1..Len(events)} : e.id = id

Stored(id) == \E i \in 1..Len(events) : events[i].id = id

\* C1: create_event writes an event only if its device is registered at the
\* moment of the write, and a request whose device is not registered when
\* create_event resolves it is answered 403 and stores nothing
C1_UnregisteredRejected ==
    /\ \A i \in 1..Len(events) : ForeignKeyHolds(events[i].sensor_id)
    /\ \A r \in EventReqs :
          (ereq[r].pc = "done" /\ ereq[r].resolved # "" /\ ~ereq[r].regAtLookup)
             => (ereq[r].status = 403 /\ ereq[r].event_id = 0)

\* C2: a delivery that deserialized is acknowledged only after process_event
\* returned and, when it returned an alert, after the alert row was committed;
\* a delivery is settled only when process_message leaves message.process()
C2_SettledState ==
    (settled.outcome = "ack" /\ settled.parsed)
       => /\ settled.evaluated
          /\ settled.result # NoAlert
                => /\ settled.committed
                   /\ \E i \in 1..Len(alerts) :
                         /\ alerts[i].event_id = settled.msg.id
                         /\ alerts[i].alert_type = settled.result.alert_type

C3_FailureRequeues ==
    (settled.parsed /\ (settled.evalError \/ settled.persistFailed))
       => (settled.outcome # "ack" /\ settled.requeued)

\* C4: a delivery whose body does not deserialize into an event envelope is
\* acknowledged and dropped: never requeued, and no alert is created for it
C4_MalformedAcked ==
    (settled.outcome # "none" /\ ~settled.parsed)
       => /\ settled.outcome = "ack"
          /\ ~settled.requeued
          /\ settled.result = NoAlert /\ ~settled.committed

C6_ReconnectRetryThenRaise ==
    \A r \in EventReqs :
       (ereq[r].pc = "done" /\ ereq[r].transportFailed)
          => /\ ereq[r].connects = 1
             /\ ~ereq[r].delivered => ereq[r].publishResult = "raised"

C8_TypePairs ==
    \A r \in EventReqs :
       LET q == ereq[r]
           detail == GetValidationErrorMessage(q.sensor.device_type, q.event_type) IN
       q.typeAtCheck \in DeviceTypes
          => IF IsValidDeviceEventCombination(q.typeAtCheck, q.event_type)
             THEN q.status # 400
             ELSE /\ q.status = 400
                  /\ q.event_id = 0 /\ q.publishes = 0 /\ q.connects = 0
                  /\ detail = [device_type |-> q.typeAtCheck,
                               event_type |-> q.event_type,
                               expected |-> GetAllowedEventType(q.typeAtCheck)]

\* the evaluation of an access_attempt that carries user_id has just returned
AccessEvaluated ==
    /\ cons.pc = "persist"
    /\ cons.msg.event_type = "access_attempt"
    /\ HasField(cons.msg.data, "user_id")

\* C9 (as stated): process_event returns an unauthorized_access alert exactly
\* when neither the cache nor the directory lookup reported the user, and the
\* alert carries the event's id, device id and timestamp and no photo
C9_AlertIffUnknownUser ==
    (AccessEvaluated /\ ~cons.evalError)
       => /\ cons.result # NoAlert
                <=> (~cons.cacheHit /\ cons.dbLooked /\ ~cons.dbFound)
          /\ cons.result # NoAlert
                => cons.result = [event_id |-> cons.msg.id,
                                  device_id |-> cons.msg.device_id,
                                  alert_type |-> "unauthorized_access",
                                  timestamp |-> cons.msg.timestamp]

C9_Step ==
    LET ev == cons.msg IN
    /\ (cons.pc = "eval" /\ cons'.pc # "eval" /\ ev.event_type = "access_attempt"
           /\ ~HasField(ev.data, "user_id"))
          => (cons'.pc = "persist" /\ cons'.result = NoAlert)
    /\ (cons.pc = "acc_cache" /\ cons'.pc = "persist")
          => (ev.data.user_id \in authCache /\ cons'.result = NoAlert)
    /\ (cons.pc = "acc_cache" /\ cons'.pc = "acc_db")
          => (ev.data.user_id \notin authCache \/ cons'.cacheError)
    /\ (cons.pc = "acc_db" /\ cons'.pc # "acc_db")
          => IF ~cons'.evalError /\ ev.data.user_id \notin authUsers
                /\ IsMacAddress(ev.device_id)
             THEN /\ cons'.pc = "persist"
                  /\ cons'.result = [event_id |-> ev.id,
                                     device_id |-> Upper(ev.device_id),
                                     alert_type |-> "unauthorized_access",
                                     timestamp |-> ev.timestamp]
             ELSE cons'.pc = "persist" => cons'.result = NoAlert
    /\ (cons.pc \in {"acc_sadd", "acc_expire"} /\ cons'.pc = "persist")
          => cons'.result = NoAlert

\* C9 (amended): process_event returns an unauthorized_access alert exactly
\* when the cache does not report the user, the directory lookup completes
\* and finds no row for the user, and the event's device_id is a MAC address;
\* the alert carries the event's id and timestamp, the device id in upper
\* case and no photo; with user_id absent, a device_id that is not a MAC
\* address or a failed directory lookup it returns no alert
C9_AlertIffUnknownUserAndMac == [][C9_Step]_vars

C9_Witness ==
    /\ AccessEvaluated
    /\ cons.msg.device_id = "aa:01"
    /\ cons.dbLooked /\ ~cons.dbFound
    /\ cons.result # NoAlert
    /\ cons.result.device_id = "AA:01"

C10_Step ==
    LET u == cons.msg.data.user_id IN
    /\ (cons.pc = "acc_cache" /\ cons'.pc # "acc_cache" /\ u \in authCache
           /\ ~cons'.cacheError)
          => (cons'.pc = "persist" /\ cons'.result = NoAlert /\ ~cons'.dbLooked)
    /\ (cons.pc = "acc_db" /\ cons'.pc # "acc_db" /\ u \in authUsers)
          => (cons'.result = NoAlert /\ (cons'.pc = "acc_sadd" \/ cons'.evalError))
    /\ (cons.pc = "acc_sadd" /\ cons'.pc # "acc_sadd" /\ ~cons'.cacheError)
          => u \in authCache'
    /\ (cons.pc \in {"acc_sadd", "acc_expire"} /\ cons'.pc = "persist")
          => cons'.result = NoAlert

SpeedEvaluated == cons.pc = "persist" /\ cons.msg.event_type = "speed_violation"

\* speed_kmh is a number strictly greater than the threshold
SpeedAbove(data) ==
    /\ HasField(data, "speed_kmh")
    /\ data.speed_kmh.type = "number"
    /\ data.speed_kmh.value > SPEED_VIOLATION_THRESHOLD

\* C11 (as stated): process_event returns a speed_violation alert exactly when
\* speed_kmh is numeric and strictly greater than the threshold
C11_AlertIffAboveThreshold ==
    SpeedEvaluated
       => /\ (cons.result # NoAlert) <=> SpeedAbove(cons.msg.data)
          /\ cons.result # NoAlert => cons.result.alert_type = "speed_violation"

\* C11 (amended): process_event returns a speed_violation alert exactly when
\* speed_kmh is numeric and strictly greater than the threshold and the
\* event's device_id is a MAC address; 90 gives no alert, 91 gives one for
\* such a device, a missing or non-numeric speed_kmh gives none
C11_AlertIffAboveThresholdAndMac ==
    SpeedEvaluated
       => LET ev == cons.msg IN
          /\ (cons.result # NoAlert)
                <=> (SpeedAbove(ev.data) /\ IsMacAddress(ev.device_id))
          /\ cons.result # NoAlert
                => cons.result = [event_id |-> ev.id, device_id |-> Upper(ev.device_id),
                                  alert_type |-> "speed_violation",
                                  timestamp |-> ev.timestamp]
          /\ (HasField(ev.data, "speed_kmh") /\ ev.data.speed_kmh = JsonNumber(90))
                => cons.result = NoAlert
          /\ (HasField(ev.data, "speed_kmh") /\ ev.data.speed_kmh = JsonNumber(91)
                 /\ IsMacAddress(ev.device_id))
                => cons.result # NoAlert

C11_Witness ==
    /\ SpeedEvaluated
    /\ HasField(cons.msg.data, "speed_kmh")
    /\ cons.msg.data.speed_kmh = JsonNumber(91)
    /\ cons.result # NoAlert
    /\ cons.result.alert_type = "speed_violation"

\* the evaluation of a motion_detected event has just returned
MotionEvaluated == cons.pc = "persist" /\ cons.msg.event_type = "motion_detected"

\* the zone contains one of the four restricted names, the hour lies in the
\* after-hours window and a photo is there
IntrusionGates(ev) ==
    /\ HasField(ev.data, "zone")
    /\ \E name \in {RestrictedArea, SecureZone, PrivateArea, ClassifiedZone} :
          Contains(ev.data.zone, name)
    /\ (ev.timestamp >= 18 \/ ev.timestamp < 6)
    /\ HasField(ev.data, "photo_base64")
    /\ ev.data.photo_base64 # ""

\* C12 (as stated): process_event returns an intrusion_detection alert exactly
\* when the zone contains a restricted name, the hour h has h >= 18 or h < 6
\* and photo_base64 is present
C12_AlertIffGatesPass ==
    MotionEvaluated
       => /\ (cons.result # NoAlert) <=> IntrusionGates(cons.msg)
          /\ cons.result # NoAlert => cons.result.alert_type = "intrusion_detection"

\* C12 (amended): process_event returns an intrusion_detection alert exactly
\* when the zone contains a restricted name as a case-sensitive substring,
\* the hour h has h >= 18 or h < 6, photo_base64 is present and not empty,
\* and the event's device_id is a MAC address; hours 17 and 6 give no alert,
\* hours 18 and 5 give one when the other conditions hold
C12_AlertIffGatesPassAndMac ==
    MotionEvaluated
       => LET ev == cons.msg IN
          /\ (cons.result # NoAlert)
                <=> (IntrusionGates(ev) /\ IsMacAddress(ev.device_id))
          /\ cons.result # NoAlert => cons.result.alert_type = "intrusion_detection"
          /\ ev.timestamp \in {6, 17} => cons.result = NoAlert
          /\ (ev.timestamp \in {5, 18} /\ HasField(ev.data, "zone")
                 /\ ev.data.zone = RestrictedArea
                 /\ HasField(ev.data, "photo_base64") /\ ev.data.photo_base64 = "img"
                 /\ IsMacAddress(ev.device_id))
                => cons.result # NoAlert

C12_Witness ==
    /\ MotionEvaluated
    /\ cons.msg.timestamp = 5
    /\ HasField(cons.msg.data, "zone")
    /\ cons.msg.data.zone = <<"X", " ">> \o PrivateArea
    /\ cons.result # NoAlert
    /\ cons.result.alert_type = "intrusion_detection"

\* the photo an alert object or an alert row carries
PhotoOf(a) == IF "photo_base64" \in DOMAIN a THEN a.photo_base64 ELSE NoPhoto

\* C13: every alert of the Alert Store has a photo exactly when its type is
\* intrusion_detection, and the photo of an intrusion_detection alert, as
\* process_event returns it and as the store holds it, is the photo_base64 of
\* the triggering event
C13_PhotoIffIntrusion ==
    /\ \A i \in 1..Len(alerts) :
          (alerts[i].photo_base64 # NoPhoto)
             <=> (alerts[i].alert_type = "intrusion_detection")
    /\ (cons.pc \in {"persist", "exit"} /\ cons.result # NoAlert
           /\ cons.result.alert_type = "intrusion_detection")
          => PhotoOf(cons.result) = cons.msg.data.photo_base64
    /\ (cons.pc = "exit" /\ cons.committed
           /\ cons.result.alert_type = "intrusion_detection")
          => alerts[Len(alerts)].photo_base64 = cons.msg.data.photo_base64

\* C14: an access_attempt evaluation for u that starts after
\* delete_authorized_user for u has completed, and ends before u is
\* registered again, returns an unauthorized_access alert
C14_RevokedUserAlerts ==
    (AccessEvaluated /\ cons.afterDelete /\ ~cons.evalError
        /\ DeleteCompleted(cons.msg.data.user_id)
        /\ IsMacAddress(cons.msg.device_id))
       => (cons.result # NoAlert /\ cons.result.alert_type = "unauthorized_access")

PublishSucceeded(id) ==
    \E r \in EventReqs :
       /\ ereq[r].pc = "done" /\ ereq[r].event_id = id
       /\ ereq[r].publishResult = "returned" /\ ~ereq[r].transportFailed

\* the alert rule of the message's event type is satisfied
RuleSatisfied(ev) ==
    CASE ev.event_type = "access_attempt" ->
            HasField(ev.data, "user_id") /\ ev.data.user_id \notin authUsers
      [] ev.event_type = "speed_violation" -> SpeedAbove(ev.data)
      [] ev.event_type = "motion_detected" -> IntrusionGates(ev)
      [] OTHER -> FALSE

\* the delivery of event id was evaluated and acknowledged, and its alert is
\* in the Alert Store when its rule is satisfied
AckedAndAlerted(id) ==
    /\ settled.msg.id = id /\ settled.outcome = "ack" /\ settled.evaluated
    /\ RuleSatisfied(settled.msg) => \E i \in 1..Len(alerts) : alerts[i].event_id = id

C17_WarmBeforeFirstMessage ==
    /\ svc.task # "none" => svc.warm # "none"
    /\ (cons.pc # "idle" \/ settled # NoSettlement) => svc.warm = "loaded"

\* C18: on shutdown no new delivery is accepted, the channel is closed only
\* after the message in flight has finished its cycle or was abandoned, and
\* no message is acknowledged without its cycle having completed
C18_ShutdownOrder ==
    /\ ~svc.lateDelivery
    /\ svc.channel = "closed" => cons.pc = "idle"
    /\ settled.outcome = "ack" /\ settled.parsed => settled.evaluated

\* C19: at most one delivery is unacknowledged at the consumer, prefetch is 1
\* from before the consumer is registered, and no process_message starts
\* while another one is running
C19_OneInFlight ==
    /\ svc.unacked <= 1
    /\ svc.consumer => svc.prefetch = 1
    /\ ~svc.overlap
    /\ cons.pc # "idle" /\ svc.channel = "open" => svc.unacked = 1

C19_Witness ==
    /\ svc.task = "loop"
    /\ svc.unacked = 1
    /\ cons.pc = "persist"
    /\ queue # << >>

\* the registry holds at most one sensor per device identifier
UniqueDeviceIds ==
    \A s1, s2 \in sensors : s1.device_id = s2.device_id => s1 = s2

\* a step of a create_sensor whose identifier is registered ends the request
\* with an error and leaves the registry as it is
RejectsExisting ==
    \A a \in SensorSlots :
       (/\ sreq[a].op = "create" /\ sreq[a].pc \in {"run", "create"}
        /\ Registered(sreq[a].device_id)
        /\ sreq'[a] # sreq[a])
       => /\ sreq'[a].pc = "done" /\ sreq'[a].status \in {400, 500}
          /\ sensors' = sensors

\* C20: after any interleaving of create_sensor requests the registry holds
\* at most one sensor per device identifier, and a create_sensor for a
\* registered identifier is rejected with an error and leaves the existing
\* sensor's device type and the registry unchanged
C20_UniqueRegistration == []UniqueDeviceIds /\ [][RejectsExisting]_vars

C20_Witness ==
    \E a \in SensorSlots :
       /\ sreq[a].pc = "done" /\ sreq[a].status = 500
       /\ \E s \in sensors :
             s.device_id = sreq[a].device_id /\ s.device_type # sreq[a].device_type

\* C21: when update_sensor or delete_sensor for a device has completed, the
\* cache holds no stale entry for it: no entry after a delete, the updated
\* registry record after an update
C21_NoStaleEntry ==
    \A a \in SensorSlots :
       LET q == sreq[a] IN
       (q.pc = "done" /\ q.status # 404)
          => /\ (q.op = "delete" /\ ~Registered(q.device_id))
                   => sensorCache[q.device_id] = NoSensor
             /\ (q.op = "update" /\ Registered(q.device_id))
                   => sensorCache[q.device_id] = GetByDeviceId(q.device_id)

\* an integer speed within the limits of the schema
SpeedAccepted(v) == v.type = "number" /\ v.value \in SPEED_KMH_GE..SPEED_KMH_LE

C23_EvaluationErrorsContained ==
    /\ (cons.evalError \/ cons.createError)
          => /\ cons.evaluated /\ cons.result = NoAlert /\ ~cons.raised
             /\ cons.pc \in {"persist", "exit"}
    /\ (settled.evalError \/ settled.createError)
          => /\ settled.outcome = "ack" /\ settled.result = NoAlert
             /\ ~settled.committed
             /\ svc.consumer /\ svc.channel = "open"

C23_Witness ==
    /\ settled.createError /\ settled.outcome = "ack"
    /\ cons.pc = "persist" /\ cons.evalError /\ cons.msg # settled.msg

\* the one alert type of each event type
AlertTypeOf(et) ==
    CASE et = "access_attempt" -> "unauthorized_access"
      [] et = "speed_violation" -> "speed_violation"
      [] et = "motion_detected" -> "intrusion_detection"
      [] OTHER -> "<none>"

\* C24: the alert process_event returns, and the alert stored for it, has the
\* alert type of the event's type; an event of any other type yields no alert,
\* raises nothing, and its delivery is acknowledged with nothing stored
C24_OneAlertTypePerEventType ==
    /\ (cons.evaluated /\ cons.result # NoAlert)
          => cons.result.alert_type = AlertTypeOf(cons.msg.event_type)
    /\ (cons.evaluated /\ cons.msg.event_type \notin EventTypes)
          => cons.result = NoAlert /\ ~cons.raised
    /\ \A i \in 1..Len(alerts) :
          LET ev == IF cons.pc # "idle" THEN cons.msg ELSE settled.msg IN
          /\ alerts[i].event_id = ev.id
          /\ alerts[i].alert_type = AlertTypeOf(ev.event_type)
    /\ (settled.outcome # "none" /\ settled.msg.event_type \notin EventTypes)
          => settled.outcome = "ack" /\ settled.result = NoAlert /\ alerts = << >>

C24_Witness ==
    /\ settled.outcome = "ack" /\ settled.msg.event_type = "SPEED_VIOLATION"
    /\ HasField(settled.msg.data, "speed_kmh")

\* no directory request is in progress: the directory is not changing
DirectoryIdle == \A a \in AuthReqs : areq[a].pc \in {"idle", "done"}

\* the key "authorized_users" is absent or carries a TTL
KeyHasTtl == authCache = {} \/ authCacheTtl

\* C25: when the key again and again carries a TTL (every mutation restarts
\* it) and expires after it, and the directory eventually stops changing, the
\* cache eventually holds only user ids of the directory, and stays so
C25_CacheEventuallyReflectsDirectory ==
    ([]<>KeyHasTtl /\ <>[]DirectoryIdle) => <>[](authCache \subseteq authUsers)

C25_Witness ==
    /\ settled.repaired /\ settled.msg.data.user_id \notin authUsers
    /\ authCache \subseteq authUsers /\ DirectoryIdle
    /\ cons.pc = "idle" /\ injected = MaxMessages

Kept(before, after) ==
    /\ Len(after) >= Len(before)
    /\ SubSeq(after, 1, Len(before)) = before

AccessSteps == {"acc_cache", "acc_db", "acc_sadd", "acc_expire"}

C28_Step ==
    LET u == cons.msg.data.user_id IN
    /\ (cons.pc = "acc_cache" /\ cons'.pc # "acc_cache" /\ u \notin authCache)
          => cons'.pc = "acc_db"
    /\ (cons.pc \in AccessSteps /\ cons'.pc \notin AccessSteps /\ u \in authUsers)
          => cons'.result = NoAlert

\* C28: whatever step of a cache refresh the evaluation of an access_attempt
\* meets, a lookup that misses in the cache goes on to the directory, and the
\* evaluation of a user the directory holds at that moment ends without alert
C28_NoAlertDuringRefresh == [][C28_Step]_vars

C28_Witness ==
    /\ cons.pc = "acc_sadd" /\ cons.dbFound /\ cons.result = NoAlert
    /\ authCache = {}
    /\ \E a \in AuthReqs :
          /\ areq[a].op = "delete" /\ areq[a].pc = "cache_sadd"
          /\ cons.msg.data.user_id \in areq[a].snapshot

\* what the cache calls of an evaluation do when the cache is unavailable
C29_CacheCalls ==
    /\ (cons.pc = "acc_cache" /\ cons'.pc # "acc_cache" /\ cons'.cacheError)
          => (cons'.pc = "acc_db" /\ ~cons'.raised)
    /\ (cons.pc = "acc_sadd" /\ cons'.pc = "persist")
          => /\ authCache' = authCache /\ authCacheTtl' = authCacheTtl
             /\ cons'.result = NoAlert /\ ~cons'.raised

\* C29 (as stated): with the cache unavailable is_user_authorized answers
\* false and add_authorized_user changes nothing, neither raising, and the
\* decision is the directory's answer: no alert for a user of the directory,
\* an unauthorized_access alert for any other user
C29_DecisionIsDirectoryAnswer ==
    [][/\ C29_CacheCalls
       /\ (cons.pc = "acc_db" /\ cons'.pc # "acc_db" /\ cons.cacheError
              /\ ~cons'.evalError)
             => IF cons.msg.data.user_id \in authUsers
                THEN cons'.result = NoAlert /\ cons'.pc = "acc_sadd"
                ELSE /\ cons'.pc = "persist" /\ cons'.result # NoAlert
                     /\ cons'.result.alert_type = "unauthorized_access"]_vars

\* C29 (amended): as above, the alert for a user outside the directory being
\* returned when the event's device_id is a MAC address, and no alert
\* otherwise
C29_DecisionIsDirectoryAnswerAndMac ==
    [][/\ C29_CacheCalls
       /\ (cons.pc = "acc_db" /\ cons'.pc # "acc_db" /\ cons.cacheError
              /\ ~cons'.evalError)
             => IF cons.msg.data.user_id \in authUsers
                THEN cons'.result = NoAlert /\ cons'.pc = "acc_sadd"
                ELSE /\ cons'.pc = "persist"
                     /\ IF IsMacAddress(cons.msg.device_id)
                        THEN /\ cons'.result # NoAlert
                             /\ cons'.result.alert_type = "unauthorized_access"
                        ELSE cons'.result = NoAlert]_vars

C29_Witness ==
    /\ cons.pc = "persist" /\ cons.cacheError /\ cons.dbLooked /\ ~cons.dbFound
    /\ cons.result # NoAlert /\ cons.result.alert_type = "unauthorized_access"
    /\ settled.outcome = "ack" /\ settled.evaluated /\ settled.result = NoAlert
    /\ settled.msg.event_type = "access_attempt"
    /\ HasField(settled.msg.data, "user_id") /\ settled.msg.data.user_id \in authUsers
    /\ ~settled.cacheHit /\ ~settled.repaired /\ ~settled.evalError

\* process_message raised for the settled delivery: an exception of the
\* deserialization that its handler does not catch, or a failed insert
ProcessMessageRaised ==
    \/ settled.persistFailed
    \/ ~settled.parsed /\ ~CaughtByParseHandler(ParseOutcome(settled.msg))

\* C30: a delivery whose process_message has finished is settled, by an
\* acknowledgement when process_message returned and by a rejection when it
\* raised
C30_ExactlyOneSettlement ==
    settled.outcome # "none"
       => settled.outcome = IF ProcessMessageRaised THEN "reject" ELSE "ack"


====
